---- MODULE Spec2Model ----
(***************************************************************************)
(* Typing effect with Braille loading animation (src/src/main.ts).         *)
(*                                                                         *)
(* The model follows typingEffectWithBrailleLoading (the driver: cursor,   *)
(* width query, the line-split loop, the per-line loop) and                *)
(* typingLineEffectWithBrailleLoading (one line: typed frames, overshoot   *)
(* contraction, finalize frame).  Strings are sequences of one-character   *)
(* strings; every index below is the 0-based index the code uses.          *)
(***************************************************************************)
EXTENDS Integers, Sequences, FiniteSets, TLC

\* ---------------------------------------------------------------- bounds
MaxLen == 4          \* longest input text
MaxWidth == 3        \* widest terminal (columns)
MaxOvershoot == 2    \* largest config.overshoot
MaxAhead == 2        \* largest config.brailleAhead
MaxTotal == 3        \* longest totalLength of the delay computations
RandomSteps == 2     \* Math.random() is one of 0/RandomSteps .. (RandomSteps-1)/RandomSteps

Alphabet == {"a", " "}
Intensities == {0, 1}          \* quantised Math.random() fade intensities
MaxLines == MaxLen + 2         \* cap of the lines array (the loop may not end)

VARIABLES
    text,         \* the text argument
    width,        \* what Deno.consoleSize().columns answers
    config,       \* the TypingEffectConfig argument
    pc,           \* position of the run
    cursor,       \* "visible" | "hidden"
    start,        \* split loop: start
    lines,        \* split loop: lines
    cutStart,     \* history: start of the last split iteration
    cutEnd,       \* history: end of the last split iteration
    lineIdx,      \* driver loop: i (index into lines)
    i,            \* line loop: i
    displayText,  \* line loop: displayText, a function 0..size-1 -> cell
    out,          \* the frame last written to stdout
    log,          \* history: every cursor call and frame write, in order
    lastAhead,    \* history: the window length `ahead` drawn for the last typed frame
    delay         \* the delay computation under examination (SpecDelay)

vars == <<text, width, config, pc, cursor, start, lines, cutStart, cutEnd,
          lineIdx, i, displayText, out, log, lastAhead, delay>>

\* ------------------------------------------------------------ JS strings
Min(a, b) == IF a < b THEN a ELSE b
Max(a, b) == IF a > b THEN a ELSE b

\* text[k]: undefined outside 0..length-1
CharAt(t, k) == IF k >= 0 /\ k < Len(t) THEN t[k + 1] ELSE "undefined"

\* String.prototype.slice index normalisation: negative counts from the end
SliceIndex(t, k) == IF k < 0 THEN Max(Len(t) + k, 0) ELSE Min(k, Len(t))

\* text.slice(s, e)
Slice(t, s, e) ==
    LET from == SliceIndex(t, s)
        to == SliceIndex(t, e)
    IN IF from < to THEN SubSeq(t, from + 1, to) ELSE <<>>

\* text.lastIndexOf(ch, fromIndex): fromIndex is clamped to 0..length-1,
\* the answer is the largest matching index <= fromIndex, or -1
LastIndexOf(t, ch, fromIndex) ==
    LET top == Min(Max(fromIndex, 0), Len(t) - 1)
        hits == {k \in 0..top : CharAt(t, k) = ch}
    IN IF hits = {} THEN -1 ELSE CHOOSE k \in hits : \A m \in hits : m <= k

\* text.padEnd(n): blanks appended up to length n, never truncated
PadEnd(t, n) == [k \in 0..(Max(Len(t), n) - 1) |-> IF k < Len(t) THEN t[k + 1] ELSE " "]

\* all strings over Alphabet of length 0..n
Texts(n) == UNION {[1..m -> Alphabet] : m \in 0..n}

\* ---------------------------------------------------------------- cells
\* A display cell is a plain one-character string or a glyph styled by
\* fadeChar with an intensity.
Plain(c) == [styled |-> FALSE, ch |-> c, fade |-> 0]
FadeChar(g, intensity) == [styled |-> TRUE, ch |-> g, fade |-> intensity]
Blank == Plain(" ")

\* similarBrailleMap[char] || char: letters have a Braille look-alike
SimilarBraille(c) == IF c = "a" THEN "braille_a" ELSE c

\* the pool getRandomBrailleCharacter() draws from
BraillePool == {"braille_1", "braille_2"}

\* ------------------------------------------------------------ line split
\* mutant: the backward search for a space is left out
SplitEndHardCut(t, st, w, o) == Min(st + w - o, Len(t))

\* mutant: no room is reserved for the overshoot
SplitEndNoReserve(t, st, w, o) ==
    LET end == Min(st + w, Len(t))
        lastSpace == LastIndexOf(t, " ", end)
    IN IF end < Len(t) /\ CharAt(t, end) # " " /\ lastSpace > st
       THEN lastSpace
       ELSE end

\* lines 295-303: the end of the line that starts at st
SplitEnd(t, st, w, o) ==
    LET end == Min(st + w - o, Len(t))
        lastSpace == LastIndexOf(t, " ", end)
    IN IF end < Len(t) /\ CharAt(t, end) # " " /\ lastSpace > st
       THEN lastSpace
       ELSE end

\* mutant: the separating space is not skipped
NextStartNoSkip(end) == end

\* line 309: where the next line starts
NextStart(end) == end + 1

\* ---------------------------------------------------------- configuration
\* main(), lines 336-348.  The fractional fields (jitter, keyboardInfluence,
\* minAccelerationMultiplier, maxAccelerationMultiplier) are held in tenths.
DemoConfig ==
    [baseDelay |-> 10, jitter |-> 30, keyboardInfluence |-> 3, keyDelay |-> 30,
     brailleAhead |-> 16, minBrailleAhead |-> 1, overshoot |-> 7,
     minContractionDelay |-> 1, maxContractionDelay |-> 20,
     minAccelerationMultiplier |-> 1, maxAccelerationMultiplier |-> 60]

\* the configurations of the animation runs: the shimmer window and the
\* overshoot vary, the timing fields are the demo's
AheadBounds == {b \in (0..MaxAhead) \X (0..MaxAhead) : b[1] <= b[2]}
RunConfigs ==
    {[DemoConfig EXCEPT !.overshoot = o, !.minBrailleAhead = b[1], !.brailleAhead = b[2]] :
        o \in 0..MaxOvershoot, b \in AheadBounds}

\* ------------------------------------------------------------ the line
\* the line under animation, lines[i] of the driver loop
Line == IF lineIdx < Len(lines) THEN lines[lineIdx + 1] ELSE <<>>

\* line 314
IsLastLine == lineIdx = Len(lines) - 1

\* mutant: every line starts the easing curve again
LineStartPositionZero(k, w, o) == 0

\* line 315
LineStartPosition(k, w, o) == k * (w - o)

\* mutant: the overshoot is added on every line
DisplaySizeAlways(n, isLast, o) == n + o

\* lines 185 and 190: text.length + (isLastLine ? config.overshoot : 0)
DisplaySize(n, isLast, o) == n + (IF isLast THEN o ELSE 0)

Size == DisplaySize(Len(Line), IsLastLine, config.overshoot)

\* mutant: the window stops one cell early (j < i + ahead)
AheadWindowExclusive(ii, ahead, size) == {j \in (ii + 1)..(ii + ahead - 1) : j < size}

\* line 215: the cells j = i+1 .. i+ahead that lie inside the buffer
AheadWindow(ii, ahead, size) == {j \in (ii + 1)..(ii + ahead) : j < size}

\* lines 215-226: the buffer after the shimmer window is drawn and cell i
\* is committed
TypedCells(dt, line, ii, window, glyph, fade) ==
    [k \in DOMAIN dt |->
        IF k = ii THEN Plain(CharAt(line, ii))
        ELSE IF k \in window
             THEN IF k < Len(line)
                  THEN FadeChar(SimilarBraille(CharAt(line, k)), fade[k])
                  ELSE FadeChar(glyph[k], fade[k])
             ELSE dt[k]]

\* mutant: the re-randomized range starts at the last real character
ContractionRangeFromLastChar(n, o, ii) == {k \in (n - 1)..(n + o - (ii - n) - 1) : TRUE}

\* line 229: the overshoot cells still shown at iteration ii
ContractionRange(n, o, ii) == {k \in n..(n + o - (ii - n) - 1) : TRUE}

\* lines 229-231: every remaining overshoot cell gets a new glyph
RerandomizedCells(dt, range, glyph, fade) ==
    [k \in DOMAIN dt |-> IF k \in range THEN FadeChar(glyph[k], fade[k]) ELSE dt[k]]

\* mutant: the leftmost remaining overshoot cell is blanked
ClearIndexLeftmost(n, o, ii) == ii

\* line 241: the cell blanked at iteration ii
ClearIndex(n, o, ii) == n + o - (ii - n) - 1

\* lines 234-235 and 245-246: a frame is a carriage return and the buffer
Frame(dt) == [cells |-> dt, newline |-> FALSE]

\* line 266: the line padded to the terminal width, then a line break
FinalFrame(line, w) ==
    [cells |-> [k \in DOMAIN PadEnd(line, w) |-> Plain(PadEnd(line, w)[k])],
     newline |-> TRUE]

NoFrame == [cells |-> <<>>, newline |-> FALSE]

\* history entries
CursorEvent(e) == [ev |-> e, line |-> -1, idx |-> -1, pos |-> -1]
FrameEvent(e, ii) ==
    [ev |-> e, line |-> lineIdx, idx |-> ii,
     pos |-> LineStartPosition(lineIdx, width, config.overshoot) + ii]

\* ------------------------------------------------------------- actions
runVars == <<text, width, config>>
splitVars == <<start, lines, cutStart, cutEnd>>

\* line 281
HideCursor ==
    /\ pc = "start"
    /\ cursor' = "hidden"
    /\ log' = Append(log, CursorEvent("hide"))
    /\ pc' = "width"
    /\ UNCHANGED <<runVars, splitVars, lineIdx, i, displayText, out, lastAhead, delay>>

\* lines 288-292 (console.clear of line 284 writes no frame)
ConsoleSize ==
    /\ pc = "width"
    /\ start' = 0
    /\ lines' = <<>>
    /\ pc' = "split"
    /\ UNCHANGED <<runVars, cursor, cutStart, cutEnd, lineIdx, i, displayText, out, log, lastAhead, delay>>

\* lines 293-310: one iteration of the split loop
SplitStep ==
    /\ pc = "split"
    /\ start < Len(text)
    /\ Len(lines) < MaxLines
    /\ LET end == SplitEnd(text, start, width, config.overshoot)
       IN /\ lines' = Append(lines, Slice(text, start, end))
          /\ cutStart' = start
          /\ cutEnd' = end
          /\ start' = NextStart(end)
    /\ UNCHANGED <<runVars, pc, cursor, lineIdx, i, displayText, out, log, lastAhead, delay>>

\* line 293 false, line 313: the split loop is left
SplitDone ==
    /\ pc = "split"
    /\ start >= Len(text)
    /\ lineIdx' = 0
    /\ pc' = "loop"
    /\ UNCHANGED <<runVars, splitVars, cursor, i, displayText, out, log, lastAhead, delay>>

\* lines 313-324 and 179-190: the next line's animation starts
BeginLine ==
    /\ pc = "loop"
    /\ lineIdx < Len(lines)
    /\ displayText' = [k \in 0..(Size - 1) |-> Blank]
    /\ i' = 0
    /\ pc' = "char"
    /\ UNCHANGED <<runVars, splitVars, cursor, lineIdx, out, log, lastAhead, delay>>

\* lines 209-226 and 245-258: a typed frame
TypeFrame ==
    /\ pc = "char"
    /\ i < Len(Line)
    /\ \E ahead \in config.minBrailleAhead..config.brailleAhead :
         LET window == AheadWindow(i, ahead, Size)
         IN \E glyph \in [{k \in window : k >= Len(Line)} -> BraillePool],
               fade \in [window -> Intensities] :
              /\ displayText' = TypedCells(displayText, Line, i, window, glyph, fade)
              /\ lastAhead' = ahead
    /\ out' = Frame(displayText')
    /\ log' = Append(log, FrameEvent("typed", i))
    /\ i' = i + 1
    /\ UNCHANGED <<runVars, splitVars, pc, cursor, lineIdx, delay>>

\* lines 227-238: the first half of a contraction step
Rerandomize ==
    /\ pc = "char"
    /\ i >= Len(Line)
    /\ i < Size
    /\ LET range == ContractionRange(Len(Line), config.overshoot, i)
       IN \E glyph \in [range -> BraillePool], fade \in [range -> Intensities] :
            displayText' = RerandomizedCells(displayText, range, glyph, fade)
    /\ out' = Frame(displayText')
    /\ log' = Append(log, FrameEvent("rerandomized", i))
    /\ pc' = "contract"
    /\ UNCHANGED <<runVars, splitVars, cursor, lineIdx, i, lastAhead, delay>>

\* lines 241-246 and 259-262: the second half of a contraction step
ClearLast ==
    /\ pc = "contract"
    /\ displayText' = [displayText EXCEPT ![ClearIndex(Len(Line), config.overshoot, i)] = Blank]
    /\ out' = Frame(displayText')
    /\ log' = Append(log, FrameEvent("cleared", i))
    /\ i' = i + 1
    /\ pc' = "char"
    /\ UNCHANGED <<runVars, splitVars, cursor, lineIdx, lastAhead, delay>>

\* mutant: the cursor is shown again after every line
FinalizeShowsCursor ==
    /\ pc = "char"
    /\ i >= Size
    /\ out' = FinalFrame(Line, width)
    /\ log' = Append(Append(log, FrameEvent("final", i)), CursorEvent("show"))
    /\ cursor' = "visible"
    /\ lineIdx' = lineIdx + 1
    /\ pc' = "loop"
    /\ UNCHANGED <<runVars, splitVars, i, displayText, lastAhead, delay>>

\* lines 190 false, 266: the finalize frame, and the driver loop goes on
Finalize ==
    /\ pc = "char"
    /\ i >= Size
    /\ out' = FinalFrame(Line, width)
    /\ log' = Append(log, FrameEvent("final", i))
    /\ lineIdx' = lineIdx + 1
    /\ pc' = "loop"
    /\ UNCHANGED <<runVars, splitVars, cursor, i, displayText, lastAhead, delay>>

\* line 328
ShowCursor ==
    /\ pc = "loop"
    /\ lineIdx >= Len(lines)
    /\ cursor' = "visible"
    /\ log' = Append(log, CursorEvent("show"))
    /\ pc' = "done"
    /\ UNCHANGED <<runVars, splitVars, lineIdx, i, displayText, out, lastAhead, delay>>

\* lines 188 and 288: Deno.consoleSize() throws; nothing catches it
ConsoleSizeThrows ==
    /\ \/ pc = "width"
       \/ pc = "loop" /\ lineIdx < Len(lines)
    /\ pc' = "failed"
    /\ UNCHANGED <<runVars, splitVars, cursor, lineIdx, i, displayText, out, log, lastAhead, delay>>

\* lines 235, 246 and 266: Deno.stdout.writeSync throws; nothing catches it
WriteThrows ==
    /\ pc \in {"char", "contract"}
    /\ pc' = "failed"
    /\ UNCHANGED <<runVars, splitVars, cursor, lineIdx, i, displayText, out, log, lastAhead, delay>>

\* ------------------------------------------------------------ the delays
\* Delays are rationals; each operator states the unit of its integer result.

\* keyboardLayout of keyboard.ts: three keys of the home row
KeyboardLayout == [a |-> <<0, 1>>, s |-> <<1, 1>>, g |-> <<4, 1>>]

\* String.prototype.toLowerCase
ToLowerCase(c) == IF c = "A" THEN "a" ELSE IF c = "S" THEN "s" ELSE IF c = "G" THEN "g" ELSE c

\* Math.sqrt on the perfect squares the layout yields
Sqrt(n) == CHOOSE r \in 0..n : r * r = n

\* lines 111-116: getKeyDistance, in key units
GetKeyDistance(key1, key2) ==
    LET k1 == ToLowerCase(key1)
        k2 == ToLowerCase(key2)
    IN IF k1 \notin DOMAIN KeyboardLayout \/ k2 \notin DOMAIN KeyboardLayout
       THEN 1
       ELSE LET pos1 == KeyboardLayout[k1]
                pos2 == KeyboardLayout[k2]
            IN Sqrt((pos1[1] - pos2[1]) * (pos1[1] - pos2[1])
                    + (pos1[2] - pos2[2]) * (pos1[2] - pos2[2]))

\* lines 121-123: normalizeKeyDistanceDelay, in ms
NormalizeKeyDistanceDelay(distance, delayPerKeyDistance) == distance * delayPerKeyDistance

\* lines 163-167: calculateAccelerationFactor, in units of 1/length^2:
\* 1 - (2*position/length - 1)^2 = (length^2 - (2*position - length)^2) / length^2
CalculateAccelerationFactor(position, length) ==
    length * length - (2 * position - length) * (2 * position - length)

\* mutant: the multiplier starts at 1 (tenths: 10) instead of 0
AccelerationMultipliersDefaultOne(c) ==
    IF c.minAccelerationMultiplier # 0 /\ c.maxAccelerationMultiplier # 0
    THEN {10 * k + c.minAccelerationMultiplier :
            k \in 0..((c.maxAccelerationMultiplier - c.minAccelerationMultiplier + 19) \div 10 - 1)}
    ELSE {10}

\* lines 198-204: the values accelerationMultiplier can take, in tenths:
\* floor(random * (max - min + 1)) is one of 0 .. ceil(max - min + 1) - 1
AccelerationMultipliers(c) ==
    IF c.minAccelerationMultiplier # 0 /\ c.maxAccelerationMultiplier # 0
    THEN {10 * k + c.minAccelerationMultiplier :
            k \in 0..((c.maxAccelerationMultiplier - c.minAccelerationMultiplier + 19) \div 10 - 1)}
    ELSE {0}

\* line 207: adjustedBaseDelay, in units of 1/(10*length^2) ms;
\* factor in 1/length^2, multiplier in tenths
AdjustedBaseDelay(baseDelay, factor, multiplier, length) ==
    baseDelay * (10 * length * length - factor * multiplier)

\* lines 250-251: keyDistanceDelay, in units of 1/10 ms
KeyDistanceDelay(previousChar, char, c) ==
    LET distance == IF previousChar # "" THEN GetKeyDistance(previousChar, char) ELSE 1
    IN NormalizeKeyDistanceDelay(distance, c.keyDelay) * c.keyboardInfluence

\* lines 128-134: getRandomDelay with Math.random() = r / RandomSteps, in
\* units of 1/(20*RandomSteps) of the unit of baseDelay; jitter in tenths:
\* base + random*variance - variance/2, variance = base*jitter
GetRandomDelay(baseDelay, jitter, r) ==
    baseDelay * (20 * RandomSteps + jitter * (2 * r - RandomSteps))

\* the timing configurations of the delay computations
AccelerationBounds == {<<0, 0>>, <<0, 60>>, <<1, 60>>, <<10, 20>>}
DelayConfigs ==
    {[DemoConfig EXCEPT !.baseDelay = b, !.jitter = j, !.keyboardInfluence = ki,
                        !.minAccelerationMultiplier = a[1],
                        !.maxAccelerationMultiplier = a[2]] :
        b \in {0, 10}, j \in {0, 6, 30}, ki \in {0, 3}, a \in AccelerationBounds}

PreviousChars == {"", "a", "S", "?"}
TypedChars == {"a", "g", "?"}

idleRun == <<text, width, cursor, start, lines, cutStart, cutEnd, lineIdx, i,
             displayText, out, log, lastAhead>>

\* lines 196-207: the easing part of one loop iteration
Accelerate ==
    /\ pc = "accelerate"
    /\ \E m \in AccelerationMultipliers(config) :
         LET f == CalculateAccelerationFactor(delay.position, delay.totalLength)
         IN delay' = [delay EXCEPT
                        !.accelerationFactor = f,
                        !.accelerationMultiplier = m,
                        !.adjustedBaseDelay =
                            AdjustedBaseDelay(config.baseDelay, f, m, delay.totalLength)]
    /\ pc' = "keydelay"
    /\ UNCHANGED <<idleRun, config>>

\* lines 248-258: the delay of a typed character; sum is the argument of
\* getRandomDelay in units of 1/(10*length^2) ms, wait the timer's
\* duration in units of 1/(200*RandomSteps*length^2) ms
CharacterDelay ==
    /\ pc = "keydelay"
    /\ \E r \in 0..(RandomSteps - 1) :
         LET kd == KeyDistanceDelay(delay.previousChar, delay.char, config)
             sum == delay.adjustedBaseDelay + kd * delay.totalLength * delay.totalLength
         IN delay' = [delay EXCEPT
                        !.keyDistanceDelay = kd,
                        !.sum = sum,
                        !.wait = GetRandomDelay(sum, config.jitter, r)]
    /\ pc' = "waited"
    /\ UNCHANGED <<idleRun, config>>

\* lines 191-193: the values contractionDelay can take, in ms:
\* floor(random * (max - min + 1)) + min
ContractionDelays(c) == c.minContractionDelay..c.maxContractionDelay

\* the contraction timings of the delay computations
ContractionBounds == {<<1, 20>>, <<0, 1>>, <<5, 5>>}
ContractionConfigs ==
    {[DemoConfig EXCEPT !.minContractionDelay = b[1], !.maxContractionDelay = b[2]] :
        b \in ContractionBounds}

\* lines 191-193: contractionDelay is drawn once, at the top of the iteration
DrawContractionDelay ==
    /\ pc = "draw"
    /\ \E d \in ContractionDelays(config) : delay' = [delay EXCEPT !.contractionDelay = d]
    /\ pc' = "rerandomized"
    /\ UNCHANGED <<idleRun, config>>

\* line 238: the wait after the re-randomized frame
WaitAfterRerandomize ==
    /\ pc = "rerandomized"
    /\ delay' = [delay EXCEPT !.firstWait = delay.contractionDelay]
    /\ pc' = "cleared"
    /\ UNCHANGED <<idleRun, config>>

\* mutant: the second wait draws a delay of its own
WaitAfterClearRedraw ==
    /\ pc = "cleared"
    /\ \E d \in ContractionDelays(config) : delay' = [delay EXCEPT !.secondWait = d]
    /\ pc' = "contracted"
    /\ UNCHANGED <<idleRun, config>>

\* line 261: the wait after the cleared frame
WaitAfterClear ==
    /\ pc = "cleared"
    /\ delay' = [delay EXCEPT !.secondWait = delay.contractionDelay]
    /\ pc' = "contracted"
    /\ UNCHANGED <<idleRun, config>>

NoDelay == [kind |-> "none"]

Init ==
    /\ text \in Texts(MaxLen)
    /\ width \in 1..MaxWidth
    /\ config \in RunConfigs
    /\ pc = "start"
    /\ cursor = "visible"
    /\ start = 0
    /\ lines = <<>>
    /\ cutStart = 0
    /\ cutEnd = 0
    /\ lineIdx = 0
    /\ i = 0
    /\ displayText = <<>>
    /\ out = NoFrame
    /\ log = <<>>
    /\ lastAhead = 0
    /\ delay = NoDelay

InitDelay ==
    /\ \/ /\ config \in DelayConfigs
          /\ \E len \in 1..MaxTotal, p \in 0..(2 * MaxTotal), prev \in PreviousChars, c \in TypedChars :
               /\ p <= 2 * len
               /\ delay = [kind |-> "typed", position |-> p, totalLength |-> len,
                           previousChar |-> prev, char |-> c,
                           accelerationFactor |-> 0, accelerationMultiplier |-> 0,
                           adjustedBaseDelay |-> 0, keyDistanceDelay |-> 0,
                           sum |-> 0, wait |-> 0]
          /\ pc = "accelerate"
       \/ /\ config \in ContractionConfigs
          /\ delay = [kind |-> "contraction", contractionDelay |-> 0,
                      firstWait |-> 0, secondWait |-> 0]
          /\ pc = "draw"
    /\ text = <<>>
    /\ width = 1
    /\ cursor = "hidden"
    /\ start = 0
    /\ lines = <<>>
    /\ cutStart = 0
    /\ cutEnd = 0
    /\ lineIdx = 0
    /\ i = 0
    /\ displayText = <<>>
    /\ out = NoFrame
    /\ log = <<>>
    /\ lastAhead = 0

NextDelay ==
    \/ Accelerate
    \/ CharacterDelay
    \/ DrawContractionDelay
    \/ WaitAfterRerandomize
    \/ WaitAfterClear

SpecDelay == InitDelay /\ [][NextDelay]_vars

Next ==
    \/ HideCursor
    \/ ConsoleSize
    \/ SplitStep
    \/ SplitDone
    \/ BeginLine
    \/ TypeFrame
    \/ Rerandomize
    \/ ClearLast
    \/ Finalize
    \/ ShowCursor
    \/ ConsoleSizeThrows
    \/ WriteThrows

Spec == Init /\ [][Next]_vars

\* =================================================================
\* Properties
\* =================================================================
Last(seq) == seq[Len(seq)]

\* the line a history entry belongs to, and whether it is the last one
EventLine(e) == lines[e.line + 1]
EventOnLastLine(e) == e.line = Len(lines) - 1

IsBlankCell(c) == c.ch = " "

\* the non-blank cells of a frame at index >= n (the overshoot region)
OvershootShown(frame, n) == {k \in DOMAIN frame.cells : k >= n /\ ~IsBlankCell(frame.cells[k])}

RECURSIVE JoinLines(_)
\* every line followed by one space
JoinLines(ls) == IF ls = <<>> THEN <<>> ELSE Head(ls) \o <<" ">> \o JoinLines(Tail(ls))

Consumed == Min(Max(start, 0), Len(text))

\* C1: with width - overshoot >= 1 the lines appear in text order, the
\* characters in no line are single spaces skipped at a cut, and the
\* character skipped after a line is always a space: the consumed part of
\* the text is the lines joined by single spaces.
C1_LosslessReconstruction ==
    (width - config.overshoot >= 1 /\ Len(lines) > 0) =>
        /\ SubSeq(JoinLines(lines), 1, Consumed) = SubSeq(text, 1, Consumed)
        /\ cutEnd < Len(text) => CharAt(text, cutEnd) = " "

\* C2: for all texts, widths and overshoot values no line produced by the
\* split loop is longer than width - overshoot.
C2_WidthBound ==
    \A k \in 1..Len(lines) : Len(lines[k]) <= width - config.overshoot

LineEvents(k) == SelectSeq(log, LAMBDA e : e.line = k)

\* C4: on the final line exactly `overshoot` contraction steps occur; at
\* step s the re-randomized frame shows overshoot - s non-blank overshoot
\* cells, the cleared frame overshoot - s - 1, the cleared cell being the
\* rightmost remaining one; after the last step, before the finalize
\* frame, every overshoot cell is blank.
C4_Contraction ==
    log # <<>> =>
        LET e == Last(log)
            n == Len(EventLine(e))
            o == config.overshoot
            s == e.idx - n
        IN /\ e.ev = "rerandomized" =>
                /\ EventOnLastLine(e)
                /\ s \in 0..(o - 1)
                /\ OvershootShown(out, n) = n..(n + o - s - 1)
           /\ e.ev = "cleared" =>
                /\ EventOnLastLine(e)
                /\ s \in 0..(o - 1)
                /\ OvershootShown(out, n) = n..(n + o - s - 2)
           /\ (e.ev = "final" /\ EventOnLastLine(e)) =>
                /\ Len(SelectSeq(LineEvents(e.line), LAMBDA x : x.ev = "rerandomized")) = o
                /\ Len(SelectSeq(LineEvents(e.line), LAMBDA x : x.ev = "cleared")) = o
                /\ \A k \in n..(n + o - 1) : IsBlankCell(displayText[k])

\* the last contraction step of a final line with two overshoot cells is done
C4_Witness ==
    /\ log # <<>>
    /\ Last(log).ev = "cleared"
    /\ config.overshoot = 2
    /\ Len(EventLine(Last(log))) >= 1
    /\ Last(log).idx = Len(EventLine(Last(log))) + 1
    /\ OvershootShown(out, Len(EventLine(Last(log)))) = {}

\* the frames a line of length n is to produce, by kind and index
ExpectedKinds(n, isLast, o) ==
    [j \in 1..(n + (IF isLast THEN 2 * o ELSE 0) + 1) |->
        IF j <= n THEN <<"typed", j - 1>>
        ELSE IF j = n + (IF isLast THEN 2 * o ELSE 0) + 1 THEN <<"final", n + (IF isLast THEN o ELSE 0)>>
        ELSE IF (j - n) % 2 = 1 THEN <<"rerandomized", n + (j - n - 1) \div 2>>
        ELSE <<"cleared", n + (j - n - 2) \div 2>>]

\* C5: a line of length n that is not the final line (or is final with
\* overshoot 0) produces n typed frames in index order and then at once
\* the finalize frame; the final line with overshoot o produces n typed
\* frames, 2*o contraction frames and the finalize frame.  The finalize
\* frame is the line text padded with blanks to the display width,
\* followed by a line break.
C5_FrameSequence ==
    (log # <<>> /\ Last(log).ev = "final") =>
        LET e == Last(log)
            line == EventLine(e)
            n == Len(line)
            evs == LineEvents(e.line)
        IN /\ [j \in 1..Len(evs) |-> <<evs[j].ev, evs[j].idx>>] =
                ExpectedKinds(n, EventOnLastLine(e), config.overshoot)
           /\ out.newline
           /\ DOMAIN out.cells = 0..(Max(n, width) - 1)
           /\ \A k \in DOMAIN out.cells :
                out.cells[k] = [styled |-> FALSE, fade |-> 0,
                                ch |-> IF k < n THEN line[k + 1] ELSE " "]

\* a non-final line and a final line with overshoot have both been finalized
C5_Witness ==
    /\ log # <<>>
    /\ Last(log).ev = "final"
    /\ EventOnLastLine(Last(log))
    /\ Len(lines) >= 2
    /\ Len(lines[1]) >= 1
    /\ Len(EventLine(Last(log))) >= 1
    /\ Len(EventLine(Last(log))) < width
    /\ config.overshoot >= 1

\* C6: for every typed character the position lineStartPosition + i given
\* to the easing computation satisfies 0 <= position < totalLength.
C6_EasingRange ==
    \A j \in 1..Len(log) :
        log[j].ev = "typed" => (0 <= log[j].pos /\ log[j].pos < Len(text))

\* C7: on every way the run can end after hideCursor, a failure of the
\* display-width query or of an output write included, showCursor has run.
C7_CursorRestored ==
    pc \in {"done", "failed"} => cursor = "visible"

FrameKinds == {"typed", "rerandomized", "cleared", "final"}

\* C8: hideCursor happens once and before any frame, the lines are
\* animated in order with line k's finalize frame before line k+1's first
\* frame, and showCursor happens once, after the finalize frame of the
\* last line; neither cursor call happens per line.
C8_RunOrdering ==
    /\ \A j \in 1..Len(log) : (log[j].ev = "hide") <=> (j = 1)
    /\ \A j \in 1..Len(log) : log[j].ev = "show" => (j = Len(log) /\ pc = "done")
    /\ \A j \in 2..(Len(log) - 1) :
         (log[j].ev \in FrameKinds /\ log[j + 1].ev \in FrameKinds) =>
            IF log[j].ev = "final"
            THEN log[j + 1].line = log[j].line + 1
            ELSE log[j + 1].line = log[j].line
    /\ (Len(log) >= 2 /\ log[2].ev \in FrameKinds) => log[2].line = 0
    /\ pc = "done" =>
         /\ Len(log) >= 2
         /\ Last(log).ev = "show"
         /\ IF lines = <<>> THEN Len(log) = 2
            ELSE /\ log[Len(log) - 1].ev = "final"
                 /\ log[Len(log) - 1].line = Len(lines) - 1

\* a run of at least two lines has completed
C8_Witness ==
    /\ pc = "done"
    /\ Len(lines) >= 2
    /\ Len(lines[1]) >= 1
    /\ Len(lines[2]) >= 1

\* C9: on the final line with overshoot >= 1 and minBrailleAhead >= 1 every
\* frame from the one that commits the last real character up to, but not
\* including, the last contraction frame shows a non-blank cell in the
\* overshoot region; the last frame before finalize shows none.
C9_OvershootMasks ==
    (log # <<>> /\ Last(log).ev \in FrameKinds /\ EventOnLastLine(Last(log))
       /\ config.overshoot >= 1 /\ config.minBrailleAhead >= 1) =>
        LET e == Last(log)
            n == Len(EventLine(e))
            lastStep == n + config.overshoot - 1
        IN /\ ((e.ev = "typed" /\ e.idx = n - 1) \/ e.ev = "rerandomized"
                  \/ (e.ev = "cleared" /\ e.idx < lastStep)) =>
                OvershootShown(out, n) # {}
           /\ (e.ev = "cleared" /\ e.idx = lastStep) =>
                /\ OvershootShown(out, n) = {}
                /\ \A k \in 0..(n - 1) : out.cells[k] = Plain(EventLine(e)[k + 1])

\* the frame that commits the last real character of the final line
C9_Witness ==
    /\ log # <<>>
    /\ Last(log).ev = "typed"
    /\ EventOnLastLine(Last(log))
    /\ Last(log).idx = Len(EventLine(Last(log))) - 1
    /\ config.overshoot >= 1
    /\ config.minBrailleAhead >= 1
    /\ OvershootShown(out, Len(EventLine(Last(log)))) # {}

\* C10: with minAccelerationMultiplier = 0 and maxAccelerationMultiplier = 0
\* the pre-jitter delay of a typed character is baseDelay plus the keyboard
\* travel delay distance * keyDelay * keyboardInfluence, whatever the easing
\* factor (both sides in units of 1/(10*totalLength^2) ms).
C10_EasingDisabled ==
    (pc = "waited" /\ config.minAccelerationMultiplier = 0
       /\ config.maxAccelerationMultiplier = 0) =>
        LET distance == IF delay.previousChar # ""
                        THEN GetKeyDistance(delay.previousChar, delay.char) ELSE 1
        IN delay.sum = (10 * config.baseDelay
                        + distance * config.keyDelay * config.keyboardInfluence)
                       * delay.totalLength * delay.totalLength

\* a delay was computed with both bounds 0 where the easing factor is not 0
C10_Witness ==
    /\ pc = "waited"
    /\ config.minAccelerationMultiplier = 0
    /\ config.maxAccelerationMultiplier = 0
    /\ config.baseDelay > 0
    /\ delay.accelerationFactor # 0
    /\ delay.previousChar # ""
    /\ delay.keyDistanceDelay > 0

\* the characters of t at the indices from .. to-1
Between(t, from, to) ==
    [k \in 1..Max(Min(to, Len(t)) - Max(from, 0), 0) |-> t[Max(from, 0) + k]]

\* C11: whenever the character at the cut boundary is a space, the line is
\* exactly the characters before that space and the next line starts with
\* the character right after it: the space is in neither line.
C11_CutAtSpace ==
    /\ (Len(lines) > 0 /\ CharAt(text, cutEnd) = " ") =>
          /\ Last(lines) = Between(text, cutStart, cutEnd)
          /\ start = cutEnd + 1
    /\ (Len(lines) >= 2 /\ CharAt(text, cutStart - 1) = " " /\ Last(lines) # <<>>) =>
          Head(Last(lines)) = CharAt(text, cutStart)

\* "a a" was cut at its space into "a" and "a"
C11_Witness ==
    /\ Len(lines) = 2
    /\ CharAt(text, cutStart - 1) = " "
    /\ lines[1] = Between(text, 0, cutStart - 1)
    /\ lines[1] # <<>>
    /\ Last(lines) # <<>>
    /\ \A k \in 1..Len(lines[1]) : lines[1][k] # " "
    /\ \A k \in 1..Len(lines[2]) : lines[2][k] # " "

\* C12: every wait scheduled after a typed frame has a non-negative
\* duration, for every configuration with non-negative baseDelay, keyDelay,
\* keyboardInfluence and jitter and 0 <= minAccelerationMultiplier <=
\* maxAccelerationMultiplier: the delay is clamped to 0 before the timer.
C12_NoNegativeWait ==
    (pc = "waited" /\ delay.kind = "typed") => delay.wait >= 0

\* C13: in every typed frame at index i with drawn window length `ahead`,
\* every non-blank cell to the right of the cursor lies in (i, i + ahead]
\* (the cells re-randomized in this frame): no glyph written in an earlier
\* frame is still shown beyond i + ahead.
C13_FreshShimmer ==
    (log # <<>> /\ Last(log).ev = "typed") =>
        \A k \in DOMAIN out.cells :
            (k > Last(log).idx /\ ~IsBlankCell(out.cells[k])) =>
                k \in (Last(log).idx + 1)..(Last(log).idx + lastAhead)

\* C14: for every configuration with 0 < minAccelerationMultiplier <=
\* maxAccelerationMultiplier, fractional bounds such as 0.1 and 6 included,
\* every multiplier m that can be drawn satisfies min <= m <= max.
C14_MultiplierInBounds ==
    (pc \in {"keydelay", "waited"} /\ delay.kind = "typed"
       /\ 0 < config.minAccelerationMultiplier
       /\ config.minAccelerationMultiplier <= config.maxAccelerationMultiplier) =>
        /\ config.minAccelerationMultiplier <= delay.accelerationMultiplier
        /\ delay.accelerationMultiplier <= config.maxAccelerationMultiplier

\* C15: the multiplier is forced to 0 if and only if both bounds are 0; with
\* exactly one bound 0 (min = 0, max = 6) it is still drawn from [min, max]
\* and can take a non-zero value.
C15_ForcedZeroOnlyByBothZero ==
    /\ (pc \in {"keydelay", "waited"} /\ delay.kind = "typed"
          /\ config.minAccelerationMultiplier = 0 /\ config.maxAccelerationMultiplier = 0) =>
            delay.accelerationMultiplier = 0
    /\ (pc = "accelerate"
          /\ ~(config.minAccelerationMultiplier = 0 /\ config.maxAccelerationMultiplier = 0)) =>
            ENABLED (Accelerate /\ delay'.accelerationMultiplier # 0)

\* C16: for every text, display width and overshoot >= 0 (a display narrower
\* than or equal to the overshoot included) the split loop terminates.  The
\* next start is a function of start alone, so a loop that terminates is
\* never back at the start value of the iteration before with text left.
C16_SplitTerminates ==
    (pc = "split" /\ Len(lines) > 0 /\ start < Len(text)) => start # cutStart

\* the typed frames of the run, in order
TypedEvents == SelectSeq(log, LAMBDA e : e.ev = "typed")

\* C17: with width - overshoot >= 1 the position lineStartPosition + i used
\* for the easing factor is strictly increasing from each typed character
\* to the next, also from the last character of a line to the first of the
\* following line.
C17_PositionMonotonic ==
    width - config.overshoot >= 1 =>
        \A j \in 1..(Len(TypedEvents) - 1) : TypedEvents[j].pos < TypedEvents[j + 1].pos

\* the first character of a second line has been typed after a first line
\* of more than one character
C17_Witness ==
    /\ width - config.overshoot >= 1
    /\ Len(TypedEvents) >= 3
    /\ Last(TypedEvents).line = 1
    /\ Last(TypedEvents).idx = 0
    /\ TypedEvents[Len(TypedEvents) - 1].line = 0
    /\ TypedEvents[Len(TypedEvents) - 1].idx >= 1

\* C18: each contraction step performs two waits, each with a freshly drawn
\* contractionDelay of its own, so within one step the two waits can differ
\* whenever minContractionDelay < maxContractionDelay.
C18_IndependentWaits ==
    (pc = "cleared" /\ config.minContractionDelay < config.maxContractionDelay) =>
        ENABLED (WaitAfterClear /\ delay'.secondWait # delay.firstWait)

\* C18 as amended: each contraction step performs two waits, one after the
\* re-randomized frame and one after the cleared frame, and both last the
\* one contractionDelay drawn at the top of the step's loop iteration, an
\* integer in [minContractionDelay, maxContractionDelay]: within one step
\* the two waits are always equal.
C18_SameDelayBothWaits ==
    pc = "contracted" =>
        /\ delay.firstWait = delay.contractionDelay
        /\ delay.secondWait = delay.firstWait
        /\ delay.contractionDelay >= config.minContractionDelay
        /\ delay.contractionDelay <= config.maxContractionDelay

\* a step whose delay was drawn strictly inside a proper range is complete
C18_Witness ==
    /\ pc = "contracted"
    /\ config.minContractionDelay < delay.secondWait
    /\ delay.secondWait < config.maxContractionDelay

\* C19: once cell i of a line holds the literal character text[i], every
\* later frame of that line (typed, re-randomized, cleared) still shows
\* text[i] in cell i; in the typed frame at index i the cells 0..i are the
\* first i+1 characters of the line.
C19_PrefixKept ==
    (log # <<>> /\ Last(log).ev \in {"typed", "rerandomized", "cleared"}) =>
        LET e == Last(log)
            line == EventLine(e)
        IN \A k \in 0..Min(e.idx, Len(line) - 1) :
              out.cells[k] = [styled |-> FALSE, fade |-> 0, ch |-> line[k + 1]]

\* a contraction frame of a final line whose shimmer once covered a cell
\* that now holds its character
C19_Witness ==
    /\ log # <<>>
    /\ Last(log).ev = "rerandomized"
    /\ Len(EventLine(Last(log))) >= 2
    /\ lastAhead >= 1
    /\ \A k \in 0..(Len(EventLine(Last(log))) - 1) : ~out.cells[k].styled

\* C20: for every text and every width >= overshoot the display buffer of
\* every line (line length, plus overshoot on the final line) has at most
\* `width` cells, so no frame is wider than the display and the finalize
\* frame, `width` cells wide, covers every cell an earlier frame wrote.
C20_BufferFits ==
    (width >= config.overshoot /\ log # <<>> /\ Last(log).ev \in FrameKinds) =>
        /\ DOMAIN out.cells \subseteq 0..(width - 1)
        /\ Last(log).ev # "final" => DOMAIN out.cells = DOMAIN displayText
        /\ Last(log).ev = "final" =>
              /\ DOMAIN out.cells = 0..(width - 1)
              /\ DOMAIN displayText \subseteq DOMAIN out.cells

\* a final line with overshoot whose buffer is exactly as wide as the display
C20_Witness ==
    /\ log # <<>>
    /\ Last(log).ev = "final"
    /\ EventOnLastLine(Last(log))
    /\ config.overshoot >= 1
    /\ Len(lines) >= 2
    /\ Len(EventLine(Last(log))) + config.overshoot = width

====
